---- MODULE Spec2Model ----
(***************************************************************************)
(* Driver-model core of U-Boot: drivers/core/lists.c and                   *)
(* drivers/core/root.c.                                                    *)
(*                                                                         *)
(* SpecStatic  - the static driver_info scan of an OF_PLATDATA build:      *)
(*               dm_scan_plat, lists_bind_drivers, bind_drivers_pass.      *)
(* SpecBindFdt - one call of lists_bind_fdt in an OF_REAL build:           *)
(*               compatible-string matching, the pre-relocation gate and   *)
(*               the bind of the selected driver.                          *)
(* SpecScanFdt - dm_scan_fdt and dm_extended_scan over a devicetree.       *)
(* SpecProbe   - one walk of dm_probe_devices over a tree of bound devices.*)
(* SpecRoot    - dm_init and dm_uninit calls in any order.                 *)
(* SpecBoot    - one call of dm_init_and_scan.                             *)
(***************************************************************************)
EXTENDS Integers, Sequences, FiniteSets, TLC

\* errno values used by the two files (returned negated, as in C)
EPERM == 1
ENOENT == 2
EAGAIN == 11
ENOMEM == 12
ENODEV == 19
EINVAL == 22

\* libfdt error codes ofnode_get_property reports in compat_length
FDT_ERR_NOTFOUND == 1
FDT_ERR_BADSTRUCTURE == 11

\* a null struct udevice *
NULL == 0
\* a non-null value that is no device of the model: what a read outside the
\* driver_rt table may yield
WILD == -1

\* ---- bounds of the model ----
\* largest driver_info table enumerated exhaustively
MaxDesc == 3
\* most scan calls (dm_scan_plat or lists_bind_drivers) in one behaviour
MaxScans == 2
\* most entries of the driver linker list
MaxDrivers == 2
\* most strings in a node's compatible property
MaxCompat == 2
\* most subnodes, in all, below the scanned nodes of a devicetree
MaxNodes == 2
\* most devices of a tree walked by dm_probe_devices
MaxDevs == 3
\* most dm_init and dm_uninit calls in one behaviour
MaxOps == 4
\* largest driver_info table of a dm_init_and_scan run
MaxBootDesc == 1

VARIABLES
    cfg,            \* the build: CONFIG_IS_ENABLED() of the OF_PLATDATA options
    info,           \* the driver_info linker list (ll_entry_start .. + n_ents)
    dm_root,        \* gd->dm_root
    devices,        \* every udevice bound so far; a device handle is its index
    driver_rt,      \* gd->dm_driver_rt, <<>> while not allocated
    rt_since,       \* how many devices existed when driver_rt was allocated
    last_call,      \* the scan call made last: "dm_scan_plat", "lists_bind_drivers"
    scan_ret,       \* the value that call returned
    pass_rets,      \* the values bind_drivers_pass returned during that call
    pass_rts,       \* the driver_rt table as each of these passes left it
    pass_log,       \* for each of these passes: the table it started on (rt0),
                    \* the entries it called device_bind_by_name for (tried)
    oob_read,       \* a driver_rt slot outside the table has been read
    scans,          \* scan calls made so far
    driver,         \* the driver linker list (ll_entry_start .. + n_ents)
    fdt_in,         \* arguments of the lists_bind_fdt call: node, drv, pre_reloc_only
    fdt_out,        \* what the call did: ret, *devp, the bind hooks it ran
    hdt,            \* the devicetree: the subnodes of "/" and of the nodes[] paths
    scan_out,       \* what dm_scan_fdt / dm_extended_scan did
    dev_attr,       \* what dm_probe_devices reads of each device (flags, node, driver)
    probe_in,       \* arguments of the dm_probe_devices call: dev, pre_reloc_only
    probe_out,      \* what the call did: ret, the calls made, the probes attempted
    gd,             \* gd->uclass_root and its list, gd->dmtag_list, the runtime tables
    leaked,         \* how many of the devices are out of reach of gd->dm_root
    life_log,       \* the dm_init and dm_uninit calls made so far, with their results
    boot_out        \* what dm_init_and_scan did: ret, the stages it ran

static_vars == <<cfg, info, driver_rt, rt_since, last_call, scan_ret,
                 pass_rets, pass_rts, pass_log, oob_read, scans>>

fdt_vars == <<driver, fdt_in, fdt_out>>

scan_vars == <<hdt, scan_out>>

probe_vars == <<dev_attr, probe_in, probe_out>>

root_vars == <<gd, leaked, life_log, boot_out>>

vars == <<dm_root, devices, static_vars, fdt_vars, scan_vars, probe_vars,
         root_vars>>

n_ents == Len(info)

\* ---- operators over sequences ----
Range(s) == {s[i] : i \in 1..Len(s)}

\* ---- the build configurations of the static scan ----
Configs ==
    { [OF_PLATDATA |-> FALSE, OF_PLATDATA_PARENT |-> FALSE],
      [OF_PLATDATA |-> TRUE,  OF_PLATDATA_PARENT |-> FALSE],
      [OF_PLATDATA |-> TRUE,  OF_PLATDATA_PARENT |-> TRUE] }

\* values device_bind_by_name returns for a driver_info entry
Rets == {0, -EPERM, -ENOENT, -ENODEV, -ENOMEM}

\* ---- driver_info tables ----
\* A driver_info entry: parent_idx is driver_info_parent_id(entry) (-1: none),
\* ret is what device_bind_by_name returns for the entry.
Table(par, r) ==
    [i \in DOMAIN par |-> [parent_idx |-> par[i], ret |-> r[i]]]

\* the entry reached from entry i (an index, -1: none) by following k parent
\* indices of par, or the first index outside the table met on the way
RECURSIVE Up(_, _, _)
Up(par, i, k) ==
    IF k = 0 \/ i \notin 0..(Len(par) - 1) THEN i
    ELSE Up(par, par[i + 1], k - 1)

\* every parent chain of par ends at an entry without parent
Acyclic(par) == \A i \in 0..(Len(par) - 1) : Up(par, i, Len(par)) = -1

\* at most one entry of the table fails to bind
SingleFaultRets(n) ==
    { [i \in 1..n |-> IF i = k THEN r ELSE 0] : k \in 1..n, r \in Rets }

AllBind(n) == [i \in 1..n |-> 0]

\* every parent graph over n entries (parent indices inside the table,
\* cycles included) in which every entry binds, and every acyclic one with
\* at most one entry that fails to bind
ParentTables(n) ==
    { Table(par, AllBind(n)) : par \in [1..n -> -1..(n - 1)] }
    \cup
    { Table(par, r) : par \in {q \in [1..n -> -1..(n - 1)] : Acyclic(q)},
                      r \in SingleFaultRets(n) }

\* tables in which the parent index of entry k is n, outside the table; each
\* other entry has no parent or entry k as its parent; all entries bind
OutOfRangeTables(n) ==
    { Table([i \in 1..n |-> IF i = k THEN n ELSE IF i \in S THEN k - 1 ELSE -1],
            AllBind(n)) :
        k \in 1..n, S \in SUBSET (1..n) }

\* tables without parents, every combination of bind results
FaultTables(n) ==
    { Table([i \in 1..n |-> -1], r) : r \in [1..n -> Rets] }

\* a chain of n entries that all bind: each entry's parent is the entry
\* declared right after it (children first) or right before it (parents first)
ChildrenFirstChain(n) ==
    [i \in 1..n |-> [parent_idx |-> IF i = n THEN -1 ELSE i, ret |-> 0]]

ParentsFirstChain(n) ==
    [i \in 1..n |-> [parent_idx |-> i - 2, ret |-> 0]]

\* ---- devices ----
\* device_bind_by_name(): NoDriver when the entry's driver is missing, else
\* the result of binding; the new device is linked under par
device_bind_by_name(entry) == entry.ret

NewDevice(par, kind, idx, drv) ==
    [parent |-> par, kind |-> kind, idx |-> idx, drv |-> drv]

RootDevice == NewDevice(NULL, "root", -1, 0)

\* the smallest element of a set of numbers
Min(S) == CHOOSE x \in S : \A y \in S : x <= y

\* the elements of a set of numbers in ascending order
RECURSIVE Ascending(_)
Ascending(S) ==
    IF S = {} THEN <<>> ELSE <<Min(S)>> \o Ascending(S \ {Min(S)})

\* the child list of device parent (parent->child_head): a bind adds the
\* new device at the tail, so the children stand in the order of their binds
ChildListOf(devs, parent) ==
    Ascending({d \in 1..Len(devs) : devs[d].parent = parent})

ChildList(parent) == ChildListOf(devices, parent)

\* ---- bind_drivers_pass ----
InTable(i) == i \in 0..(n_ents - 1)

\* the slot check left out
SlotFilled_Never(rt, idx) == FALSE

\* if (drt->dev) continue;
SlotFilled(rt, idx) == rt[idx + 1] # NULL

\* index 0 taken for "no parent"
NeedsParent_Positive(parent_idx) ==
    cfg.OF_PLATDATA /\ cfg.OF_PLATDATA_PARENT /\ parent_idx > 0

\* CONFIG_IS_ENABLED(OF_PLATDATA_PARENT) && parent_idx != -1
NeedsParent(parent_idx) ==
    cfg.OF_PLATDATA /\ cfg.OF_PLATDATA_PARENT /\ parent_idx # -1

\* parent_drt = gd_dm_driver_rt() + parent_idx; parent_drt->dev. The read
\* is not range-checked: outside the table it yields whatever lies there,
\* null (nonnull = FALSE) or not
ParentSlotDev(rt, parent_idx, nonnull) ==
    IF InTable(parent_idx) THEN rt[parent_idx + 1]
    ELSE IF nonnull THEN WILD ELSE NULL

\* drt->dev = dev;
SetSlot(rt, idx, dev) ==
    [i \in 1..Len(rt) |-> IF i = idx + 1 THEN dev ELSE rt[i]]

\* variant: the first error other than -ENOENT is kept
RecordError_First(result, ret) ==
    IF result = 0 \/ (result = -ENOENT /\ ret # -ENOENT) THEN ret ELSE result

\* if (!result || ret != -ENOENT) result = ret;
RecordError(result, ret) ==
    IF result = 0 \/ ret # -ENOENT THEN ret ELSE result

\* missing_parent not reported
PassReturn_NoAgain(result, missing_parent) == result

\* return result ? result : missing_parent ? -EAGAIN : 0;
PassReturn(result, missing_parent) ==
    IF result # 0 THEN result
    ELSE IF missing_parent THEN -EAGAIN ELSE 0

\* } else if (ret != -EPERM) {: the result the pass does not record
Passed(ret) == ret = -EPERM

\* ret = device_bind_by_name(par, pre_reloc_only, entry, &dev) and what the
\* loop body does with ret
BindEntry(st, idx, par) ==
    LET ret == device_bind_by_name(info[idx + 1])
        dev == Len(st.devs) + 1
        tried == [st EXCEPT !.attempts = Append(@, idx)]
    IN  IF ret = 0
        THEN [tried EXCEPT
                !.devs = Append(@, NewDevice(par, "info", idx, 0)),
                !.rt = IF cfg.OF_PLATDATA THEN SetSlot(st.rt, idx, dev) ELSE @]
        ELSE IF ~Passed(ret)
        THEN [tried EXCEPT !.result = RecordError(@, ret)]
        ELSE tried

\* variant: the table is walked from its end
EntryAt_Reverse(idx) == n_ents - 1 - idx

\* const struct driver_info *entry = info + idx; drt = gd_dm_driver_rt() + idx
EntryAt(idx) == idx

\* the loop of bind_drivers_pass from index idx on; wild is the set of
\* indices whose out-of-table parent slot reads as non-null
RECURSIVE PassLoop(_, _, _, _)
PassLoop(idx, parent, wild, st) ==
    IF idx >= n_ents THEN st
    ELSE
      LET e == EntryAt(idx)
          parent_idx == info[e + 1].parent_idx
      IN  IF cfg.OF_PLATDATA /\ SlotFilled(st.rt, e)
          THEN PassLoop(idx + 1, parent, wild, st)
          ELSE IF NeedsParent(parent_idx)
          THEN LET pdev == ParentSlotDev(st.rt, parent_idx, e \in wild)
                   st1 == [st EXCEPT !.oob = @ \/ ~InTable(parent_idx)]
               IN  IF pdev = NULL
                   THEN PassLoop(idx + 1, parent, wild,
                                 [st1 EXCEPT !.missing_parent = TRUE])
                   ELSE PassLoop(idx + 1, parent, wild, BindEntry(st1, e, pdev))
          ELSE PassLoop(idx + 1, parent, wild, BindEntry(st, e, parent))

\* bind_drivers_pass(parent, pre_reloc_only) run on the slot table rt and
\* the devices devs: the state it leaves and the value it returns
bind_drivers_pass(parent, wild, rt, devs) ==
    LET st == PassLoop(0, parent, wild,
                       [rt |-> rt, devs |-> devs, result |-> 0,
                        missing_parent |-> FALSE, oob |-> FALSE,
                        attempts |-> <<>>])
    IN  [rt |-> st.rt, devs |-> st.devs, oob |-> st.oob,
         attempts |-> st.attempts,
         ret |-> PassReturn(st.result, st.missing_parent)]

\* ---- lists_bind_drivers ----
\* for (pass = 0; pass < 10; pass++)
MaxPasses == 10

\* if (!result || result == -EAGAIN) result = ret;
OuterResult(result, ret) ==
    IF result = 0 \/ result = -EAGAIN THEN ret ELSE result

\* the test inverted
LoopBreaks_Inverted(ret) == ret = -EAGAIN

\* if (ret != -EAGAIN) break;
LoopBreaks(ret) == ret # -EAGAIN

\* entries whose parent index lies outside the table
OobEntries == {i \in 0..(n_ents - 1) : info[i + 1].parent_idx \notin -1..(n_ents - 1)}

\* the loop of lists_bind_drivers from pass number pass on; the slots
\* outside the table read as null before pass wild_from and as non-null
\* from it on
RECURSIVE ListsLoop(_, _, _, _)
ListsLoop(pass, parent, wild_from, ls) ==
    IF pass >= MaxPasses THEN ls
    ELSE
      LET p == bind_drivers_pass(parent,
                                 IF pass >= wild_from THEN OobEntries ELSE {},
                                 ls.rt, ls.devs)
          after == [rt |-> p.rt, devs |-> p.devs, oob |-> ls.oob \/ p.oob,
                    result |-> OuterResult(ls.result, p.ret),
                    rets |-> Append(ls.rets, p.ret),
                    rts |-> Append(ls.rts, p.rt),
                    log |-> Append(ls.log, [rt0 |-> ls.rt, tried |-> p.attempts])]
      IN  IF LoopBreaks(p.ret) THEN after
          ELSE ListsLoop(pass + 1, parent, wild_from, after)

\* lists_bind_drivers(parent, pre_reloc_only) run on the slot table rt
ListsBindDrivers(parent, wild_from, rt) ==
    ListsLoop(0, parent, wild_from,
              [rt |-> rt, devs |-> devices, oob |-> FALSE, result |-> 0,
               rets |-> <<>>, rts |-> <<>>, log |-> <<>>])

\* what an out-of-table slot may hold over the passes of one call
WildFrom == IF OobEntries = {} THEN {MaxPasses} ELSE 0..MaxPasses

\* dm_scan_plat: if (ret == -ENOENT) ret = 0;
ScanPlatRet(ret) == IF ret = -ENOENT THEN 0 ELSE ret

\* dm_scan_plat(): allocate the driver_rt table (calloc may fail), then
\* lists_bind_drivers(DM_ROOT_NON_CONST, pre_reloc_only)
dm_scan_plat ==
    /\ scans < MaxScans
    /\ dm_root # NULL
    /\ scans' = scans + 1
    /\ last_call' = "dm_scan_plat"
    /\ \E calloc_ok \in BOOLEAN :
         IF cfg.OF_PLATDATA /\ ~calloc_ok
         THEN /\ scan_ret' = -ENOMEM
              /\ pass_rets' = <<>>
              /\ pass_rts' = <<>>
              /\ pass_log' = <<>>
              /\ UNCHANGED <<devices, driver_rt, rt_since, oob_read>>
         ELSE \E wild_from \in WildFrom :
                \E r \in {ListsBindDrivers(dm_root, wild_from,
                                            IF cfg.OF_PLATDATA
                                            THEN [i \in 1..n_ents |-> NULL]
                                            ELSE driver_rt)} :
                    /\ devices' = r.devs
                    /\ driver_rt' = r.rt
                    /\ rt_since' = IF cfg.OF_PLATDATA THEN Len(devices)
                                   ELSE rt_since
                    /\ oob_read' = (oob_read \/ r.oob)
                    /\ pass_rets' = r.rets
                    /\ pass_rts' = r.rts
                    /\ pass_log' = r.log
                    /\ scan_ret' = ScanPlatRet(r.result)
    /\ UNCHANGED <<cfg, info, dm_root, fdt_vars, scan_vars, probe_vars,
                   root_vars>>

\* lists_bind_drivers() called on its own, against the table a dm_scan_plat
\* allocated
lists_bind_drivers ==
    /\ scans < MaxScans
    /\ dm_root # NULL
    /\ cfg.OF_PLATDATA => Len(driver_rt) = n_ents
    /\ scans' = scans + 1
    /\ last_call' = "lists_bind_drivers"
    /\ \E wild_from \in WildFrom :
         \E r \in {ListsBindDrivers(dm_root, wild_from, driver_rt)} :
             /\ devices' = r.devs
             /\ driver_rt' = r.rt
             /\ oob_read' = (oob_read \/ r.oob)
             /\ pass_rets' = r.rets
             /\ pass_rts' = r.rts
             /\ pass_log' = r.log
             /\ scan_ret' = r.result
    /\ UNCHANGED <<cfg, info, dm_root, rt_since, fdt_vars, scan_vars, probe_vars,
                   root_vars>>

\* ---- lists_bind_fdt ----
\* compatible strings of the nodes and of the drivers' of_match lists
Compats == {"acme,foo-v2", "generic,foo"}

\* a driver without of_match list (entry->of_match == NULL)
NoMatchList == <<"NULL">>

n_drivers == Len(driver)

\* sequences over S of at most n elements
BSeq(S, n) == UNION {[1..k -> S] : k \in 0..n}

\* driver_check_compatible(): the position in of_match of the first entry
\* equal to compat (*of_idp, return 0), or 0 when there is none (-ENOENT)
RECURSIVE MatchFrom(_, _, _)
MatchFrom(of_match, compat, i) ==
    IF i > Len(of_match) THEN 0
    ELSE IF of_match[i] = compat THEN i
    ELSE MatchFrom(of_match, compat, i + 1)

\* variant: only the first entry of of_match is compared
driver_check_compatible_FirstOnly(of_match, compat) ==
    IF of_match = NoMatchList THEN 0
    ELSE IF Len(of_match) > 0 /\ of_match[1] = compat THEN 1 ELSE 0

driver_check_compatible(of_match, compat) ==
    IF of_match = NoMatchList THEN 0 ELSE MatchFrom(of_match, compat, 1)

\* variant: a restricted driver without of_match list matches nothing
RECURSIVE EntryLoop_NoForce(_, _, _)
EntryLoop_NoForce(entry, drv, compat) ==
    IF entry > n_drivers THEN entry
    ELSE IF drv # NULL /\ drv # entry THEN EntryLoop_NoForce(entry + 1, drv, compat)
    ELSE IF driver_check_compatible(driver[entry].of_match, compat) # 0 THEN entry
    ELSE EntryLoop_NoForce(entry + 1, drv, compat)

\* the loop over the driver list for one compatible string: the entry it
\* stops at, n_drivers + 1 when it runs to the end. With a driver
\* restriction the other entries are passed over, and the loop stops at the
\* restricted driver when that has no of_match list
RECURSIVE EntryLoop(_, _, _)
EntryLoop(entry, drv, compat) ==
    IF entry > n_drivers THEN entry
    ELSE IF drv # NULL /\ drv # entry THEN EntryLoop(entry + 1, drv, compat)
    ELSE IF drv # NULL /\ driver[entry].of_match = NoMatchList THEN entry
    ELSE IF driver_check_compatible(driver[entry].of_match, compat) # 0 THEN entry
    ELSE EntryLoop(entry + 1, drv, compat)

\* variant: the gate looks at the driver's flag alone
PreRelocSkips_DriverOnly(node, entry, pre_reloc_only) ==
    pre_reloc_only /\ ~driver[entry].pre_reloc

\* if (pre_reloc_only) if (!ofnode_pre_reloc(node) &&
\*     !(entry->flags & DM_FLAG_PRE_RELOC)) return 0;
PreRelocSkips(node, entry, pre_reloc_only) ==
    pre_reloc_only /\ ~node.pre_reloc /\ ~driver[entry].pre_reloc

\* device_bind_with_driver_data(): what the bind of a device with driver
\* entry returns: 0, or the error of the driver's bind hook, after which the
\* device is gone again
device_bind_with_driver_data(entry) == driver[entry].bind_ret

\* variant: -ENODEV is an error like the others
Refused_Never(ret) == FALSE

\* if (ret == -ENODEV) continue;
Refused(ret) == ret = -ENODEV

\* the loop over the compatible strings from string number k on; hooks
\* lists the drivers whose bind has been called so far
RECURSIVE CompatLoop(_, _, _, _, _)
CompatLoop(k, node, drv, pre_reloc_only, hooks) ==
    IF k > Len(node.compat)
    THEN [ret |-> 0, entry |-> 0, compat_idx |-> 0, hooks |-> hooks, skipped |-> 0]
    ELSE
      LET entry == EntryLoop(1, drv, node.compat[k])
      IN  IF entry = n_drivers + 1
          THEN CompatLoop(k + 1, node, drv, pre_reloc_only, hooks)
          ELSE IF PreRelocSkips(node, entry, pre_reloc_only)
          THEN [ret |-> 0, entry |-> 0, compat_idx |-> 0, hooks |-> hooks,
                skipped |-> entry]
          ELSE
            LET ret == device_bind_with_driver_data(entry)
                ran == Append(hooks, entry)
            IN  IF Refused(ret)
                THEN CompatLoop(k + 1, node, drv, pre_reloc_only, ran)
                ELSE IF ret # 0
                THEN [ret |-> ret, entry |-> 0, compat_idx |-> 0, hooks |-> ran,
                      skipped |-> 0]
                ELSE [ret |-> 0, entry |-> entry, compat_idx |-> k, hooks |-> ran,
                      skipped |-> 0]

\* lists_bind_fdt(parent, node, devp, drv, pre_reloc_only): the value it
\* returns, the driver entry a device was bound with (0: none) and the
\* compatible string that selected it, the drivers whose bind was called,
\* and the driver whose device the pre-relocation gate skipped (0: none)
lists_bind_fdt(node, drv, pre_reloc_only) ==
    IF node.prop = "notfound"
    THEN [ret |-> 0, entry |-> 0, compat_idx |-> 0, hooks |-> <<>>, skipped |-> 0]
    ELSE IF node.prop = "error"
    THEN [ret |-> -FDT_ERR_BADSTRUCTURE, entry |-> 0, compat_idx |-> 0,
          hooks |-> <<>>, skipped |-> 0]
    ELSE CompatLoop(1, node, drv, pre_reloc_only, <<>>)

\* no lists_bind_fdt call in this behaviour
NoCall == [called |-> FALSE]
NoResult == [returned |-> FALSE]

\* a call of lists_bind_fdt(parent = root, fdt_in.node, &dev, fdt_in.drv,
\* fdt_in.pre_reloc_only)
lists_bind_fdt_call ==
    /\ fdt_in.called
    /\ ~fdt_out.returned
    /\ \E r \in {lists_bind_fdt(fdt_in.node, fdt_in.drv, fdt_in.pre_reloc_only)} :
         /\ devices' = IF r.entry # 0
                       THEN Append(devices,
                                   NewDevice(dm_root, "node", fdt_in.node.id, r.entry))
                       ELSE devices
         /\ fdt_out' = [returned |-> TRUE, ret |-> r.ret,
                        devp |-> IF r.entry # 0 THEN Len(devices) + 1 ELSE NULL,
                        entry |-> r.entry, compat_idx |-> r.compat_idx,
                        hooks |-> r.hooks, skipped |-> r.skipped]
    /\ UNCHANGED <<dm_root, static_vars, driver, fdt_in, scan_vars, probe_vars,
                   root_vars>>

\* ---- dm_scan_fdt_node, dm_extended_scan ----
\* ofnode_root() and the paths of nodes[] in dm_extended_scan
RootPath == "/"
AuxPaths == <<"/chosen", "/clocks", "/firmware">>
ScanPaths == <<RootPath>> \o AuxPaths

NoTree == [p \in {} |-> 0]
NoScan == [called |-> FALSE]

\* variant: every error replaces the one before
FirstError_Last(ret, err) == IF err # 0 THEN err ELSE ret

\* if (err && !ret) ret = err;
FirstError(ret, err) == IF err # 0 /\ ret = 0 THEN err ELSE ret

\* the loop of dm_scan_fdt_node over the subnodes from number i on; acc
\* holds ret, the lists_bind_fdt calls made (calls) and the devices
RECURSIVE SubnodeLoop(_, _, _, _, _)
SubnodeLoop(i, parent, subnodes, pre_reloc_only, acc) ==
    IF i > Len(subnodes) THEN acc
    ELSE IF ~subnodes[i].enabled
    THEN SubnodeLoop(i + 1, parent, subnodes, pre_reloc_only, acc)
    ELSE
      LET r == lists_bind_fdt(subnodes[i], NULL, pre_reloc_only)
          call == [node |-> subnodes[i].id, ret |-> r.ret, entry |-> r.entry,
                   hooks |-> r.hooks,
                   dev |-> IF r.entry # 0 THEN Len(acc.devs) + 1 ELSE NULL]
      IN  SubnodeLoop(i + 1, parent, subnodes, pre_reloc_only,
                      [ret |-> FirstError(acc.ret, r.ret),
                       calls |-> Append(acc.calls, call),
                       devs |-> IF r.entry # 0
                                THEN Append(acc.devs,
                                            NewDevice(parent, "node",
                                                      subnodes[i].id, r.entry))
                                ELSE acc.devs])

\* dm_scan_fdt_node(parent, parent_node, pre_reloc_only) for the node at
\* path, on the calls and devices of st; the scan is added to st.scans
dm_scan_fdt_node(parent, path, pre_reloc_only, st) ==
    LET r == IF ~hdt[path].valid
             THEN [ret |-> 0, calls |-> st.calls, devs |-> st.devs]
             ELSE SubnodeLoop(1, parent, hdt[path].subnodes, pre_reloc_only,
                              [ret |-> 0, calls |-> st.calls, devs |-> st.devs])
    IN  [ret |-> r.ret, calls |-> r.calls, devs |-> r.devs,
         scans |-> Append(st.scans, [path |-> path, ret |-> r.ret])]

\* the scan failed: if (ret) return ret;
ScanFailed_Never(ret) == FALSE

ScanFailed(ret) == ret # 0

\* the loop of dm_extended_scan over nodes[] from index i on
RECURSIVE AuxLoop(_, _, _, _)
AuxLoop(i, root, pre_reloc_only, st) ==
    IF i > Len(AuxPaths) THEN st
    ELSE LET r == dm_scan_fdt_node(root, AuxPaths[i], pre_reloc_only, st)
         IN  IF ScanFailed(r.ret) THEN r
             ELSE AuxLoop(i + 1, root, pre_reloc_only, r)

ScanStart == [ret |-> 0, calls |-> <<>>, devs |-> devices, scans |-> <<>>]

\* dm_scan_fdt(pre_reloc_only)
dm_scan_fdt ==
    /\ ~scan_out.called
    /\ dm_root # NULL
    /\ \E pre_reloc_only \in BOOLEAN :
       \E r \in {dm_scan_fdt_node(dm_root, RootPath, pre_reloc_only, ScanStart)} :
         /\ devices' = r.devs
         /\ scan_out' = [called |-> TRUE, fn |-> "dm_scan_fdt", ret |-> r.ret,
                         calls |-> r.calls, scans |-> r.scans]
    /\ UNCHANGED <<dm_root, static_vars, fdt_vars, hdt, probe_vars,
                   root_vars>>

\* dm_extended_scan(pre_reloc_only)
dm_extended_scan ==
    /\ ~scan_out.called
    /\ dm_root # NULL
    /\ \E pre_reloc_only \in BOOLEAN :
       \E r0 \in {dm_scan_fdt_node(dm_root, RootPath, pre_reloc_only, ScanStart)} :
       \E r \in {IF ScanFailed(r0.ret) THEN r0 ELSE AuxLoop(1, dm_root, pre_reloc_only, r0)} :
         /\ devices' = r.devs
         /\ scan_out' = [called |-> TRUE, fn |-> "dm_extended_scan", ret |-> r.ret,
                         calls |-> r.calls, scans |-> r.scans]
    /\ UNCHANGED <<dm_root, static_vars, fdt_vars, hdt, probe_vars,
                   root_vars>>

\* ---- dm_probe_devices ----
NoWalk == [called |-> FALSE]

NoWalkResult == [called |-> FALSE]

\* no dm_probe_devices call is made
NoProbeWalk ==
    /\ dev_attr = <<>>
    /\ probe_in = NoWalk
    /\ probe_out = NoWalkResult

\* device_probe(): what the probe of the device reports; dev is what
\* dm_probe_devices reads of the device
device_probe(dev) == dev.probe_ret

\* with pre_reloc_only, a device is passed over unless its node is valid and
\* marked pre-reloc, or its driver carries DM_FLAG_PRE_RELOC
ProbeGateSkips(dev, pre_reloc_only) ==
    /\ pre_reloc_only
    /\ (~dev.node_valid \/ ~dev.node_pre_reloc)
    /\ ~dev.drv_pre_reloc

\* dev_get_flags(dev) & DM_FLAG_PROBE_AFTER_BIND
ProbeAfterBind(dev) == dev.probe_after_bind

ProbeFailed_Never(ret) == FALSE

\* if (ret) return ret;
ProbeFailed(ret) == ret # 0

ChildAborts_OnError(ret) == ret # 0

\* the value of the call made for a child is dropped
ChildAborts(ret) == FALSE

\* nothing walked yet, in the tree devs of devices that show attr: calls
\* are the devices dm_probe_devices was called for, probes those
\* device_probe was called for, rets what each call returned, in the order
\* of the returns
WalkStart(devs, attr) ==
    [ret |-> 0, calls |-> <<>>, probes |-> <<>>, rets |-> <<>>,
     devs |-> devs, attr |-> attr]

RECURSIVE dm_probe_devices(_, _, _)
RECURSIVE ChildLoop(_, _, _, _)

\* list_for_each_entry(child, &dev->child_head, sibling_node), then return 0
ChildLoop(list, k, pre_reloc_only, acc) ==
    IF k > Len(list)
    THEN [acc EXCEPT !.ret = 0]
    ELSE LET r == dm_probe_devices(list[k], pre_reloc_only, acc)
         IN  IF ChildAborts(r.ret)
             THEN r
             ELSE ChildLoop(list, k + 1, pre_reloc_only, r)

dm_probe_devices(dev, pre_reloc_only, acc) ==
    LET entered == [acc EXCEPT !.calls = Append(@, dev)]
        Returned(r) ==
            [r EXCEPT !.rets = Append(@, [dev |-> dev, ret |-> r.ret])]
    IN  IF /\ ~ProbeGateSkips(acc.attr[dev], pre_reloc_only)
           /\ ProbeAfterBind(acc.attr[dev])
        THEN LET ret == device_probe(acc.attr[dev])
                 probed == [entered EXCEPT !.probes = Append(@, dev)]
             IN  IF ProbeFailed(ret)
                 THEN Returned([probed EXCEPT !.ret = ret])
                 ELSE Returned(ChildLoop(ChildListOf(acc.devs, dev), 1,
                                         pre_reloc_only, probed))
        ELSE Returned(ChildLoop(ChildListOf(acc.devs, dev), 1,
                                pre_reloc_only, entered))

\* one call of dm_probe_devices(dev, pre_reloc_only)
dm_probe_devices_call ==
    /\ probe_in.called
    /\ ~probe_out.called
    /\ \E r \in {dm_probe_devices(probe_in.dev, probe_in.pre_reloc_only,
                                  WalkStart(devices, dev_attr))} :
         probe_out' = [called |-> TRUE, ret |-> r.ret, calls |-> r.calls,
                       probes |-> r.probes, rets |-> r.rets]
    /\ UNCHANGED <<dm_root, devices, static_vars, fdt_vars, scan_vars,
                   dev_attr, probe_in, root_vars>>

\* ---- dm_init, dm_uninit ----
\* gd before dm_init: no uclass list, no tag list, no runtime tables
GdReset ==
    [uclass_root |-> "none", uclass_list |-> <<>>, dmtag_list |-> "unset",
     udevice_rt |-> "none", priv_base |-> "none"]

\* the part of the state dm_init and dm_uninit work on
Life(root, devs, g, lk) ==
    [dm_root |-> root, devices |-> devs, gd |-> g, leaked |-> lk]

\* DM_DEVICE_GET(root): the root of the devices generated at build time
StaticRoot == 1

\* the results the environment gives one dm_init call: the bind and the
\* probe of the root, and whether the two calloc calls find memory; the
\* errors are other than -EINVAL, which then stands for the rejected call
InitEnvs ==
    {[bind_ret |-> b, probe_ret |-> p, urt_ok |-> u, base_ok |-> m] :
        b \in {0, -ENOMEM}, p \in {0, -ENODEV}, u \in BOOLEAN, m \in BOOLEAN}

\* the results the environment gives one dm_uninit call
UninitEnvs ==
    {[non_vital |-> a, normal |-> b, unbind |-> c] :
        a \in {0, -EINVAL}, b \in {0, -EINVAL}, c \in {0, -EINVAL}}

RootExists_Never(root) == FALSE

\* if (gd->dm_root)
RootExists(root) == root # NULL

\* gd->uclass_root: the list built at build time, or a list made empty
UclassRoot(g) ==
    IF cfg.OF_PLATDATA_INST
    THEN [g EXCEPT !.uclass_root = "uclass_head", !.uclass_list = <<"root">>]
    ELSE [g EXCEPT !.uclass_root = "DM_UCLASS_ROOT_S", !.uclass_list = <<>>]

dm_setup_inst(s, env) ==
    LET s1 == [s EXCEPT !.dm_root = StaticRoot]
    IN  IF ~cfg.OF_PLATDATA_RT THEN [ret |-> 0, s |-> s1]
        ELSE IF ~env.urt_ok THEN [ret |-> -ENOMEM, s |-> s1]
        ELSE LET s2 == [s1 EXCEPT !.gd.udevice_rt = "allocated"]
             IN  IF ~env.base_ok THEN [ret |-> -ENOMEM, s |-> s2]
                 ELSE [ret |-> 0,
                       s |-> [s2 EXCEPT !.gd.priv_base = "allocated"]]

\* device_bind_by_name(NULL, false, &root_info, &DM_ROOT_NON_CONST): on
\* success the root device is bound in its uclass and gd->dm_root is set
BindRoot(s, env) ==
    IF device_bind_by_name([ret |-> env.bind_ret]) # 0 THEN s
    ELSE [s EXCEPT !.devices = Append(@, RootDevice),
                   !.dm_root = Len(s.devices) + 1,
                   !.gd.uclass_list = Append(@, "root")]

\* INIT_LIST_HEAD(&gd->dmtag_list); return 0
InitDone(s) == [ret |-> 0, s |-> [s EXCEPT !.gd.dmtag_list = "empty"]]

dm_init(s, env) ==
    IF RootExists(s.dm_root) THEN [ret |-> -EINVAL, s |-> s]
    ELSE LET s0 == [s EXCEPT !.gd = UclassRoot(@)]
         IN  IF cfg.OF_PLATDATA_INST
             THEN LET r == dm_setup_inst(s0, env)
                  IN  IF r.ret # 0 THEN r ELSE InitDone(r.s)
             ELSE IF env.bind_ret # 0
                  THEN [ret |-> env.bind_ret, s |-> BindRoot(s0, env)]
                  ELSE IF env.probe_ret # 0
                       THEN [ret |-> env.probe_ret, s |-> BindRoot(s0, env)]
                       ELSE InitDone(BindRoot(s0, env))

\* dm_root(): NULL, with a warning, when there is no root
dm_root_get(s) == IF s.dm_root = NULL THEN NULL ELSE s.dm_root

\* device_remove(dev, flags): a null dev is refused
device_remove(dev, ret) == IF dev = NULL THEN -EINVAL ELSE ret

\* device_unbind(dev): a null dev is refused; on success the devices under
\* dev and dev are unbound and freed (those generated at build time stay)
device_unbind(dev, ret) == IF dev = NULL THEN -EINVAL ELSE ret

Unbound(s, ret) ==
    IF s.dm_root = NULL \/ cfg.OF_PLATDATA_INST THEN s
    ELSE IF ret = 0
         THEN [s EXCEPT !.devices = SubSeq(@, 1, s.leaked)]
         ELSE [s EXCEPT !.leaked = Len(s.devices)]

UninitReturn_Unbind(nv, nr, ub) == ub

\* return 0: the results of the three calls are dropped
UninitReturn(nv, nr, ub) == 0

dm_uninit(s, env) ==
    LET nv == device_remove(dm_root_get(s), env.non_vital)
        nr == device_remove(dm_root_get(s), env.normal)
        ub == device_unbind(dm_root_get(s), env.unbind)
        s1 == Unbound(s, ub)
    IN  [ret |-> UninitReturn(nv, nr, ub),
         s |-> [s1 EXCEPT !.dm_root = NULL],
         steps |-> <<[step |-> "device_remove", dev |-> dm_root_get(s),
                      flags |-> "DM_REMOVE_NON_VITAL", ret |-> nv],
                     [step |-> "device_remove", dev |-> dm_root_get(s),
                      flags |-> "DM_REMOVE_NORMAL", ret |-> nr],
                     [step |-> "device_unbind", dev |-> dm_root_get(s1),
                      flags |-> "", ret |-> ub],
                     [step |-> "gd->dm_root = NULL", dev |-> dm_root_get(s1),
                      flags |-> "", ret |-> 0]>>]

\* no dm_init_and_scan call made
NoBoot == [called |-> FALSE]

\* no dm_init or dm_uninit call is made: dm_init has set up the root
NoLifecycle ==
    /\ gd = [GdReset EXCEPT !.uclass_root = "DM_UCLASS_ROOT_S",
                            !.uclass_list = <<"root">>,
                            !.dmtag_list = "empty"]
    /\ leaked = 0
    /\ life_log = <<>>
    /\ boot_out = NoBoot

Now == Life(dm_root, devices, gd, leaked)

\* one call of dm_init(of_live)
dm_init_call ==
    /\ Len(life_log) < MaxOps
    /\ \E env \in InitEnvs :
       \E r \in {dm_init(Now, env)} :
         /\ dm_root' = r.s.dm_root
         /\ devices' = r.s.devices
         /\ gd' = r.s.gd
         /\ leaked' = r.s.leaked
         /\ life_log' = Append(life_log, [fn |-> "dm_init", ret |-> r.ret,
                                          steps |-> <<>>])
    /\ UNCHANGED <<static_vars, fdt_vars, scan_vars, probe_vars, boot_out>>

\* one call of dm_uninit()
dm_uninit_call ==
    /\ Len(life_log) < MaxOps
    /\ \E env \in UninitEnvs :
       \E r \in {dm_uninit(Now, env)} :
         /\ dm_root' = r.s.dm_root
         /\ devices' = r.s.devices
         /\ gd' = r.s.gd
         /\ leaked' = r.s.leaked
         /\ life_log' = Append(life_log, [fn |-> "dm_uninit", ret |-> r.ret,
                                          steps |-> r.steps])
    /\ UNCHANGED <<static_vars, fdt_vars, scan_vars, probe_vars, boot_out>>

\* ---- dm_scan, dm_init_and_scan ----
\* a stage of dm_init_and_scan: the call made, what it returned, and for
\* dm_scan_plat what lists_bind_drivers had returned to it
Stage(name, ret, raw) == [stage |-> name, ret |-> ret, raw |-> raw]

\* dm_scan_plat(pre_reloc_only) on the devices devs; the driver_info
\* tables of these runs have no parent indices
ScanPlat(root, devs, calloc_ok) ==
    IF cfg.OF_PLATDATA /\ ~calloc_ok
    THEN [ret |-> -ENOMEM, raw |-> -ENOMEM, devs |-> devs, rt |-> driver_rt]
    ELSE LET r == ListsLoop(0, root, MaxPasses,
                            [rt |-> IF cfg.OF_PLATDATA
                                    THEN [i \in 1..n_ents |-> NULL]
                                    ELSE driver_rt,
                             devs |-> devs, oob |-> FALSE, result |-> 0,
                             rets |-> <<>>, rts |-> <<>>, log |-> <<>>])
         IN  [ret |-> ScanPlatRet(r.result), raw |-> r.result,
              devs |-> r.devs, rt |-> r.rt]

\* dm_extended_scan(pre_reloc_only) on the devices devs
ExtendedScan(root, devs, pre_reloc_only) ==
    LET r0 == dm_scan_fdt_node(root, RootPath, pre_reloc_only,
                               [ret |-> 0, calls |-> <<>>, devs |-> devs,
                                scans |-> <<>>])
    IN  IF ScanFailed(r0.ret) THEN r0
        ELSE AuxLoop(1, root, pre_reloc_only, r0)

\* the root device carries no DM_FLAG_PROBE_AFTER_BIND
RootAttr ==
    [probe_after_bind |-> FALSE, drv_pre_reloc |-> FALSE,
     node_valid |-> TRUE, node_pre_reloc |-> FALSE, probe_ret |-> 0]

\* what the devices devs show to dm_probe_devices
BootAttr(devs, child_attr) ==
    [d \in 1..Len(devs) |->
        IF devs[d].kind = "root" THEN RootAttr ELSE child_attr]

\* dm_init_and_scan before its first call: nothing returned, the devices
\* and gd of s, no stage run
BootStart(s) == [ret |-> 0, s |-> s, rt |-> driver_rt, stages |-> <<>>]

\* the stage that returned r has run: its result and its devices are kept
Ran(b, name, ret, raw, devs) ==
    [b EXCEPT !.ret = ret, !.s.devices = devs,
              !.stages = Append(@, Stage(name, ret, raw))]

\* variant: only the lack of memory ends the call
Returned_OnlyNoMem(ret) == ret = -ENOMEM

\* if (ret) return ret; after a stage of dm_scan or dm_init_and_scan
Returned(ret) == ret # 0

\* ret = dm_init(CONFIG_IS_ENABLED(OF_LIVE))
StageInit(b, i) ==
    [b EXCEPT !.ret = i.ret, !.s = i.s,
              !.stages = Append(@, Stage("dm_init", i.ret, i.ret))]

\* the builds that call dm_scan: if (!CONFIG_IS_ENABLED(OF_PLATDATA_INST))
Scans == ~cfg.OF_PLATDATA_INST

\* ret = dm_scan_plat(pre_reloc_only), p being what the call does
StageScanPlat(b, p) ==
    [Ran(b, "dm_scan_plat", p.ret, p.raw, p.devs) EXCEPT !.rt = p.rt]

\* ret = dm_extended_scan(pre_reloc_only), x being what the call does
StageExtendedScan(b, x) == Ran(b, "dm_extended_scan", x.ret, x.ret, x.devs)

\* ret = dm_scan_other(pre_reloc_only)
StageScanOther(b, ret) == Ran(b, "dm_scan_other", ret, ret, b.s.devices)

\* return dm_probe_devices(gd->dm_root, pre_reloc_only)
StageProbe(b, walk) ==
    Ran(b, "dm_probe_devices", walk.ret, walk.ret, b.s.devices)

\* ret = event_notify_null(...)
StageEvent(b, ret) == Ran(b, "event_notify_null", ret, ret, b.s.devices)

\* the results the environment gives one dm_init_and_scan call: those of
\* dm_init that the build reads, the calloc of dm_scan_plat, the board's
\* dm_scan_other, event_notify_null, and what the bound devices show to
\* dm_probe_devices
BootEnvs ==
    {[init |-> i, calloc_ok |-> c, other_ret |-> o, event_ret |-> v,
      child_attr |-> a] :
        i \in {e \in InitEnvs :
                 IF cfg.OF_PLATDATA_INST
                 THEN e.bind_ret = 0 /\ e.probe_ret = 0
                 ELSE e.urt_ok /\ e.base_ok},
        c \in BOOLEAN, o \in {0, -EINVAL}, v \in {0, -ENODEV},
        a \in {[probe_after_bind |-> FALSE, drv_pre_reloc |-> FALSE,
                node_valid |-> TRUE, node_pre_reloc |-> FALSE,
                probe_ret |-> 0],
               [probe_after_bind |-> TRUE, drv_pre_reloc |-> TRUE,
                node_valid |-> TRUE, node_pre_reloc |-> FALSE,
                probe_ret |-> 0],
               [probe_after_bind |-> TRUE, drv_pre_reloc |-> FALSE,
                node_valid |-> TRUE, node_pre_reloc |-> TRUE,
                probe_ret |-> -ENODEV]}}

\* one call of dm_init_and_scan(pre_reloc_only): dm_init, then dm_scan
\* (dm_scan_plat, dm_extended_scan, dm_scan_other, dm_probe_devices), then
\* event_notify_null; b0 .. b5 are the call after each of these, a stage
\* being passed over once the call has returned or when the build lacks it
dm_init_and_scan_call ==
    /\ ~boot_out.called
    /\ \E pre_reloc_only \in BOOLEAN :
       \E env \in BootEnvs :
       \E b0 \in {StageInit(BootStart(Now), i) :
                    i \in {dm_init(Now, env.init)}} :
       \E b1 \in IF Returned(b0.ret) \/ ~Scans THEN {b0}
                 ELSE {StageScanPlat(b0, p) :
                         p \in {ScanPlat(b0.s.dm_root, b0.s.devices,
                                         env.calloc_ok)}} :
       \E b2 \in IF Returned(b1.ret) \/ ~Scans \/ ~cfg.OF_REAL THEN {b1}
                 ELSE {StageExtendedScan(b1, x) :
                         x \in {ExtendedScan(b1.s.dm_root, b1.s.devices,
                                             pre_reloc_only)}} :
       \E b3 \in IF Returned(b2.ret) \/ ~Scans THEN {b2}
                 ELSE {StageScanOther(b2, env.other_ret)} :
       \E b4 \in IF Returned(b3.ret) \/ ~Scans THEN {b3}
                 ELSE {StageProbe(b3, w) :
                         w \in {dm_probe_devices(b3.s.dm_root, pre_reloc_only,
                                    WalkStart(b3.s.devices,
                                        BootAttr(b3.s.devices,
                                                 env.child_attr)))}} :
       \E b5 \in IF Returned(b4.ret) \/ ~cfg.DM_EVENT THEN {b4}
                 ELSE {StageEvent(b4, env.event_ret)} :
         /\ dm_root' = b5.s.dm_root
         /\ devices' = b5.s.devices
         /\ gd' = b5.s.gd
         /\ leaked' = b5.s.leaked
         /\ driver_rt' = b5.rt
         /\ dev_attr' = BootAttr(b5.s.devices, env.child_attr)
         /\ boot_out' = [called |-> TRUE, pre_reloc_only |-> pre_reloc_only,
                         ret |-> b5.ret, stages |-> b5.stages]
    /\ UNCHANGED <<cfg, info, rt_since, last_call, scan_ret, pass_rets,
                   pass_rts, pass_log, oob_read, scans, fdt_vars, scan_vars,
                   probe_in, probe_out, life_log>>

\* ---- one lists_bind_fdt call ----
BindRets == {0, -ENODEV, -ENOMEM}

OfMatchLists == {<<"acme,foo-v2">>, <<"generic,foo">>, <<"acme,foo-v2", "generic,foo">>}

Drivers(of_matches, flags) ==
    [of_match : of_matches, pre_reloc : flags, bind_ret : BindRets]

DriverTables(of_matches, flags) ==
    UNION {[1..n -> Drivers(of_matches, flags)] : n \in 1..MaxDrivers}

\* the compatible property of a node: a list of strings, missing
\* (-FDT_ERR_NOTFOUND), or unreadable
NodeProps ==
    {[prop |-> "ok", compat |-> c] : c \in BSeq(Compats, MaxCompat)}
    \cup {[prop |-> "notfound", compat |-> <<>>], [prop |-> "error", compat |-> <<>>]}

Node(id, p, enabled, pre_reloc) ==
    [id |-> id, prop |-> p.prop, compat |-> p.compat, enabled |-> enabled,
     pre_reloc |-> pre_reloc, subnodes |-> <<>>]

\* the node with the subnodes subs below it
WithSubnodes(node, subs) == [node EXCEPT !.subnodes = subs]

\* the static scan does not run in this build
NoStaticScan ==
    /\ cfg = [OF_PLATDATA |-> FALSE, OF_PLATDATA_PARENT |-> FALSE]
    /\ info = <<>>
    /\ driver_rt = <<>>
    /\ rt_since = 0
    /\ last_call = "none"
    /\ scan_ret = 0
    /\ pass_rets = <<>>
    /\ pass_rts = <<>>
    /\ pass_log = <<>>
    /\ oob_read = FALSE
    /\ scans = 0

\* The flags DM_FLAG_PRE_RELOC and the node's pre-reloc mark are read only
\* when pre_reloc_only is set: without it they are left clear, and every
\* driver restriction and the drivers without of_match list are tried; with
\* it the drivers and the node carry every combination of the marks.
InitBindFdt ==
    /\ NoStaticScan
    /\ NoProbeWalk
    /\ NoLifecycle
    /\ devices = <<RootDevice>>
    /\ dm_root = 1
    /\ fdt_out = NoResult
    /\ hdt = NoTree
    /\ scan_out = NoScan
    /\ \/ /\ driver \in DriverTables(OfMatchLists \cup {NoMatchList}, {FALSE})
          /\ fdt_in \in {[called |-> TRUE, node |-> Node(1, p, TRUE, FALSE),
                          drv |-> d, pre_reloc_only |-> FALSE] :
                            p \in NodeProps, d \in 0..n_drivers}
       \/ /\ driver \in DriverTables(OfMatchLists, BOOLEAN)
          /\ fdt_in \in {[called |-> TRUE, node |-> Node(1, p, TRUE, m),
                          drv |-> NULL, pre_reloc_only |-> TRUE] :
                            p \in NodeProps, m \in BOOLEAN}

NextBindFdt == lists_bind_fdt_call

SpecBindFdt == InitBindFdt /\ [][NextBindFdt]_vars

\* ---- a devicetree scan ----
\* two drivers, every one flagged DM_FLAG_PRE_RELOC, the first matching the
\* first compatible string and the second the second, with every
\* combination of bind results
ScanBindRets == <<{0, -ENODEV, -ENOMEM}, {0, -ENODEV, -EINVAL}>>

ScanDriverTables ==
    { <<[of_match |-> <<"acme,foo-v2">>, pre_reloc |-> TRUE, bind_ret |-> r1],
        [of_match |-> <<"generic,foo">>, pre_reloc |-> TRUE, bind_ret |-> r2]>> :
        r1 \in ScanBindRets[1], r2 \in ScanBindRets[2] }

\* the subnodes of a scan: one or both compatible strings, no compatible
\* property, an unreadable one; some of them also disabled (status not
\* "okay")
ScanNodeProps ==
    { [prop |-> "ok", compat |-> <<"acme,foo-v2">>],
      [prop |-> "ok", compat |-> <<"generic,foo">>],
      [prop |-> "ok", compat |-> <<"acme,foo-v2", "generic,foo">>],
      [prop |-> "notfound", compat |-> <<>>],
      [prop |-> "error", compat |-> <<>>] }

ScanNodeKinds ==
    { [prop |-> p.prop, compat |-> p.compat, enabled |-> TRUE] :
        p \in ScanNodeProps }
    \cup { [prop |-> p.prop, compat |-> p.compat, enabled |-> FALSE] :
             p \in {q \in ScanNodeProps : q.prop = "error" \/ Len(q.compat) = 1} }

\* subnode number i of a scanned node, made from the kind k: a node with a
\* single compatible string has a subnode of its own, an enabled node with
\* the same compatible string (node id MaxNodes + i)
ScanNode(i, k) ==
    WithSubnodes(Node(i, [prop |-> k.prop, compat |-> k.compat], k.enabled, FALSE),
                 IF Len(k.compat) = 1
                 THEN <<Node(MaxNodes + i, [prop |-> k.prop, compat |-> k.compat],
                             TRUE, FALSE)>>
                 ELSE <<>>)

\* the devicetree whose nodes ns[1], ns[2], ... (node ids 1, 2, ...) are the
\* subnodes of the paths at[1] <= at[2] <= ... (positions in ScanPaths), in
\* this order; the paths in absent do not exist
Tree(ns, at, absent) ==
    [p \in 1..Len(ScanPaths) |->
        [valid |-> p \notin absent,
         subnodes |->
            LET mine == {i \in 1..Len(ns) : at[i] = p}
                first == CHOOSE i \in mine : \A j \in mine : i <= j
            IN  [k \in 1..Cardinality(mine) |->
                    ScanNode(first + k - 1, ns[first + k - 1])]]]

\* the paths of nodes[] that have no subnode under the placement at: they
\* all exist, or none of them does
Childless(ns, at) ==
    {p \in 2..Len(ScanPaths) : \A i \in 1..Len(ns) : at[i] # p}

Placements(ns) ==
    {f \in [1..Len(ns) -> 1..Len(ScanPaths)] :
       \A i \in 1..(Len(ns) - 1) : f[i] <= f[i + 1]}

InitScanFdt ==
    /\ NoStaticScan
    /\ NoProbeWalk
    /\ NoLifecycle
    /\ devices = <<RootDevice>>
    /\ dm_root = 1
    /\ fdt_in = NoCall
    /\ fdt_out = NoResult
    /\ driver \in ScanDriverTables
    /\ scan_out = NoScan
    /\ \E ns \in BSeq(ScanNodeKinds, MaxNodes) :
       \E at \in Placements(ns) :
       \E absent \in {{}, Childless(ns, at)} :
       \E t \in {Tree(ns, at, absent)} :
         hdt = [path \in Range(ScanPaths) |->
                  t[CHOOSE p \in 1..Len(ScanPaths) : ScanPaths[p] = path]]

NextScanFdt ==
    \/ dm_scan_fdt
    \/ dm_extended_scan

SpecScanFdt == InitScanFdt /\ [][NextScanFdt]_vars

\* ---- the static scan ----
StaticTables ==
    UNION {ParentTables(n) \cup OutOfRangeTables(n) \cup FaultTables(n) : n \in 1..MaxDesc}
    \cup {ChildrenFirstChain(MaxPasses), ChildrenFirstChain(MaxPasses + 1),
          ParentsFirstChain(MaxPasses), ParentsFirstChain(MaxPasses + 1)}

\* parent indices are read in the parent-aware build only
InitStatic ==
    /\ cfg \in Configs
    /\ info \in IF cfg.OF_PLATDATA_PARENT THEN StaticTables
                ELSE UNION {FaultTables(n) : n \in 1..MaxDesc}
    /\ devices = <<RootDevice>>
    /\ dm_root = 1
    /\ driver_rt = <<>>
    /\ rt_since = 0
    /\ last_call = "none"
    /\ scan_ret = 0
    /\ pass_rets = <<>>
    /\ pass_rts = <<>>
    /\ pass_log = <<>>
    /\ oob_read = FALSE
    /\ scans = 0
    /\ driver = <<>>
    /\ fdt_in = NoCall
    /\ fdt_out = NoResult
    /\ hdt = NoTree
    /\ scan_out = NoScan
    /\ dev_attr = <<>>
    /\ probe_in = NoWalk
    /\ probe_out = NoWalkResult
    /\ NoLifecycle

NextStatic ==
    \/ dm_scan_plat
    \/ lists_bind_drivers

SpecStatic == InitStatic /\ [][NextStatic]_vars

\* ---- a walk of dm_probe_devices ----
\* what a device shows to dm_probe_devices: DM_FLAG_PROBE_AFTER_BIND, its
\* driver's DM_FLAG_PRE_RELOC, whether it has a node and the node's pre-reloc
\* mark, and the result its probe reports
ProbeAttr(pab, drv, valid, mark, ret) ==
    [probe_after_bind |-> pab, drv_pre_reloc |-> drv, node_valid |-> valid,
     node_pre_reloc |-> mark, probe_ret |-> ret]

ProbeKinds ==
    {ProbeAttr(FALSE, FALSE, TRUE, TRUE, 0),
     ProbeAttr(TRUE, TRUE, FALSE, FALSE, 0),
     ProbeAttr(TRUE, FALSE, TRUE, TRUE, -EINVAL),
     ProbeAttr(TRUE, FALSE, FALSE, FALSE, 0),
     ProbeAttr(TRUE, FALSE, TRUE, FALSE, -EINVAL)}

\* the trees of n devices: device 1 is the root, every other device was
\* bound after its parent
DeviceTrees(n) ==
    {[i \in 1..n |-> IF i = 1 THEN RootDevice
                     ELSE NewDevice(par[i], "fdt", -1, 0)] :
        par \in {p \in [1..n -> 0..(n - 1)] :
                    \A i \in 2..n : 1 <= p[i] /\ p[i] < i}}

InitProbe ==
    /\ NoStaticScan
    /\ NoLifecycle
    /\ dm_root = 1
    /\ driver = <<>>
    /\ fdt_in = NoCall
    /\ fdt_out = NoResult
    /\ hdt = NoTree
    /\ scan_out = NoScan
    /\ probe_out = NoWalkResult
    /\ \E n \in 1..MaxDevs :
         /\ devices \in DeviceTrees(n)
         /\ dev_attr \in [1..n -> ProbeKinds]
         /\ probe_in \in {[called |-> TRUE, dev |-> d, pre_reloc_only |-> p] :
                            d \in 1..n, p \in BOOLEAN}

NextProbe == dm_probe_devices_call

SpecProbe == InitProbe /\ [][NextProbe]_vars

\* ---- the life of the root ----
\* the builds of dm_init: OF_PLATDATA_RT is an option of OF_PLATDATA_INST
RootBuilds ==
    {[OF_PLATDATA |-> i, OF_PLATDATA_PARENT |-> FALSE,
      OF_PLATDATA_INST |-> i, OF_PLATDATA_RT |-> r] :
        i \in BOOLEAN, r \in BOOLEAN} \
    {[OF_PLATDATA |-> FALSE, OF_PLATDATA_PARENT |-> FALSE,
      OF_PLATDATA_INST |-> FALSE, OF_PLATDATA_RT |-> TRUE]}

\* before the first dm_init: no root; the devices generated at build time
\* are there from the start
InitRoot ==
    /\ cfg \in RootBuilds
    /\ info = <<>>
    /\ driver_rt = <<>>
    /\ rt_since = 0
    /\ last_call = "none"
    /\ scan_ret = 0
    /\ pass_rets = <<>>
    /\ pass_rts = <<>>
    /\ pass_log = <<>>
    /\ oob_read = FALSE
    /\ scans = 0
    /\ driver = <<>>
    /\ fdt_in = NoCall
    /\ fdt_out = NoResult
    /\ hdt = NoTree
    /\ scan_out = NoScan
    /\ NoProbeWalk
    /\ dm_root = NULL
    /\ devices = IF cfg.OF_PLATDATA_INST THEN <<RootDevice>> ELSE <<>>
    /\ gd = GdReset
    /\ leaked = 0
    /\ life_log = <<>>
    /\ boot_out = NoBoot

NextRoot ==
    \/ dm_init_call
    \/ dm_uninit_call

SpecRoot == InitRoot /\ [][NextRoot]_vars

\* ---- one dm_init_and_scan ----
\* the builds of dm_init_and_scan: an instance build (the root comes from
\* the build-time tables, nothing is scanned) or a dynamic one, with or
\* without driver_rt table, devicetree scan and event notification
BootBuilds ==
    {[OF_PLATDATA |-> TRUE, OF_PLATDATA_PARENT |-> FALSE,
      OF_PLATDATA_INST |-> TRUE, OF_PLATDATA_RT |-> r, OF_REAL |-> FALSE,
      DM_EVENT |-> v] : r \in BOOLEAN, v \in BOOLEAN}
    \cup
    {[OF_PLATDATA |-> p, OF_PLATDATA_PARENT |-> FALSE,
      OF_PLATDATA_INST |-> FALSE, OF_PLATDATA_RT |-> FALSE, OF_REAL |-> o,
      DM_EVENT |-> v] : p \in BOOLEAN, o \in BOOLEAN, v \in BOOLEAN}

\* the driver_info tables: up to MaxBootDesc entries without parent, with
\* every combination of bind results
BootTables == {<<>>} \cup UNION {FaultTables(n) : n \in 1..MaxBootDesc}

\* the driver tables: the bind of the first driver succeeds or fails
BootDriverTables ==
    {d \in ScanDriverTables : d[1].bind_ret \in {0, -ENOMEM} /\ d[2].bind_ret = 0}

\* the devicetrees: no subnode, or one enabled subnode below "/" or below
\* "/chosen"
BootTrees ==
    {[path \in Range(ScanPaths) |->
         t[CHOOSE p \in 1..Len(ScanPaths) : ScanPaths[p] = path]] :
        t \in {Tree(<<>>, <<>>, {})}
              \cup {Tree(<<k>>, <<p>>, {}) :
                      k \in {q \in ScanNodeKinds : q.enabled}, p \in 1..2}}

InitBoot ==
    /\ cfg \in BootBuilds
    /\ IF cfg.OF_PLATDATA_INST
       THEN info = <<>> /\ driver = <<>> /\ hdt = NoTree
       ELSE /\ info \in BootTables
            /\ IF cfg.OF_REAL
               THEN driver \in BootDriverTables /\ hdt \in BootTrees
               ELSE driver = <<>> /\ hdt = NoTree
    /\ driver_rt = <<>>
    /\ rt_since = 0
    /\ last_call = "none"
    /\ scan_ret = 0
    /\ pass_rets = <<>>
    /\ pass_rts = <<>>
    /\ pass_log = <<>>
    /\ oob_read = FALSE
    /\ scans = 0
    /\ fdt_in = NoCall
    /\ fdt_out = NoResult
    /\ scan_out = NoScan
    /\ NoProbeWalk
    /\ dm_root = NULL
    /\ devices = IF cfg.OF_PLATDATA_INST THEN <<RootDevice>> ELSE <<>>
    /\ gd = GdReset
    /\ leaked = 0
    /\ life_log = <<>>
    /\ boot_out = NoBoot

NextBoot == dm_init_and_scan_call

SpecBoot == InitBoot /\ [][NextBoot]_vars

\* ---- properties of the static scan ----
ParentAware == cfg.OF_PLATDATA /\ cfg.OF_PLATDATA_PARENT

\* the last scan call ran lists_bind_drivers (its allocation did not fail)
ScanRan == pass_rets # <<>>

ParentIdx == [i \in 1..n_ents |-> info[i].parent_idx]

ParentsInRange == \A i \in 1..n_ents : ParentIdx[i] \in -1..(n_ents - 1)

\* number of entries on the parent chain of entry i, entry i included
ChainLevels(i) ==
    CHOOSE k \in 1..n_ents :
        Up(ParentIdx, i, k) = -1 /\ \A j \in 0..(k - 1) : Up(ParentIdx, i, j) # -1

\* entry i's parent chain ends at an entry without parent
ChainEnds(i) == Up(ParentIdx, i, n_ents) = -1

AllRetsOk == \A i \in 1..n_ents : info[i].ret = 0

\* devices ever bound for entry i
DevicesOf(i) ==
    {d \in 1..Len(devices) : devices[d].kind = "info" /\ devices[d].idx = i}

Last(q) == q[Len(q)]

\* C2: parent-aware mode, acyclic parent graph with chains of at most 10
\* levels, every entry binds, any declaration order: the scan makes at most
\* 10 passes, every pass before the last reports -EAGAIN, the last one
\* reports 0, the scan returns 0, and every entry is bound.
C2_AcyclicTableResolves ==
    (/\ ParentAware /\ ScanRan /\ ParentsInRange /\ AllRetsOk
     /\ Acyclic(ParentIdx)
     /\ \A i \in 0..(n_ents - 1) : ChainLevels(i) <= MaxPasses)
    => /\ Len(pass_rets) <= MaxPasses
       /\ \A k \in 1..(Len(pass_rets) - 1) : pass_rets[k] = -EAGAIN
       /\ Last(pass_rets) = 0
       /\ scan_ret = 0
       /\ \A i \in 1..n_ents : driver_rt[i] # NULL

\* a chain of 10 levels declared children first is resolved by the tenth pass
C2_Witness ==
    /\ ParentAware /\ ScanRan /\ ParentsInRange /\ AllRetsOk
    /\ Acyclic(ParentIdx)
    /\ \E i \in 0..(n_ents - 1) : ChainLevels(i) = MaxPasses
    /\ Len(pass_rets) = MaxPasses
    /\ scan_ret = 0
    /\ \A i \in 1..n_ents : driver_rt[i] # NULL

\* every filled slot of the table rt has its parent's slot filled by an
\* older device, which is the parent of its own device; an entry without
\* parent index is bound under the root
SlotsUnderParents(rt) ==
    \A i \in 1..Len(rt) :
        rt[i] # NULL =>
            IF ParentIdx[i] = -1 THEN devices[rt[i]].parent = dm_root
            ELSE ParentIdx[i] \in 0..(n_ents - 1) =>
                    /\ rt[ParentIdx[i] + 1] # NULL
                    /\ rt[ParentIdx[i] + 1] < rt[i]
                    /\ devices[rt[i]].parent = rt[ParentIdx[i] + 1]

\* C3: parent-aware mode: in the slot table as every pass leaves it, an
\* entry with a parent index p inside the table that holds a device was
\* bound after slot p was filled (device handles grow in bind order) and
\* its device's parent is slot p's device; an entry without parent index is
\* bound under the root passed to the scan.
C3_ChildBoundUnderParentSlot ==
    ParentAware =>
        /\ SlotsUnderParents(driver_rt)
        /\ \A k \in 1..Len(pass_rts) : SlotsUnderParents(pass_rts[k])

\* a child declared before its parent has been bound, in a later pass
C3_Witness ==
    /\ ParentAware
    /\ Len(pass_rets) >= 2
    /\ \E i \in 1..n_ents :
         /\ ParentIdx[i] \in i..(n_ents - 1)
         /\ driver_rt[i] # NULL
         /\ devices[driver_rt[i]].parent = driver_rt[ParentIdx[i] + 1]

\* C4 as stated: at most one device has ever been bound for each entry,
\* whatever scan calls were made.
C4_AtMostOneDeviceEver ==
    cfg.OF_PLATDATA => \A i \in 0..(n_ents - 1) : Cardinality(DevicesOf(i)) <= 1

\* C4, amended: OF_PLATDATA build: among the devices bound since the current
\* driver_rt table was allocated there is at most one per entry, the one
\* its slot records; passes and lists_bind_drivers calls never bind an
\* entry whose slot is filled.
C4_AtMostOneDevicePerTable ==
    (cfg.OF_PLATDATA /\ Len(driver_rt) = n_ents) =>
        \A i \in 0..(n_ents - 1) :
            {d \in DevicesOf(i) : d > rt_since}
              = IF driver_rt[i + 1] = NULL THEN {} ELSE {driver_rt[i + 1]}

\* lists_bind_drivers was called again on a table with a filled slot, and
\* the entry still has the one device
C4_Witness ==
    /\ cfg.OF_PLATDATA
    /\ scans = 2
    /\ last_call = "lists_bind_drivers"
    /\ ScanRan
    /\ \E i \in 0..(n_ents - 1) :
         /\ driver_rt[i + 1] # NULL
         /\ DevicesOf(i) = {driver_rt[i + 1]}

\* entries that fail to bind
Faulty == {i \in 0..(n_ents - 1) : info[i + 1].ret # 0}

\* the entries on the parent chain of entry i, entry i included
ChainOf(i) == {Up(ParentIdx, i, k) : k \in 0..n_ents} \ {-1}

\* C5 as stated: parent-aware mode, one faulty entry: when the scan returns,
\* every entry whose parent chain (itself included) holds only entries that
\* bind is bound, wherever the faulty entry and the parents are declared.
C5_FaultyEntryDoesNotStopOthers ==
    (/\ ParentAware /\ ScanRan /\ ParentsInRange /\ Acyclic(ParentIdx)
     /\ Cardinality(Faulty) = 1)
    => \A i \in 0..(n_ents - 1) :
         (ChainOf(i) \cap Faulty = {} /\ ChainLevels(i) <= MaxPasses)
            => driver_rt[i + 1] # NULL

\* entries on a parent cycle or below one
OnOrBelowCycle == {i \in 0..(n_ents - 1) : ~ChainEnds(i)}

\* C6: parent-aware mode, parent indices inside the table with a cycle, and
\* every entry binds: the scan makes exactly 10 passes, each reports
\* -EAGAIN, the scan returns -EAGAIN, and no entry on a cycle or below one
\* has ever been bound.
C6_CycleStopsAfterTenPasses ==
    (/\ ParentAware /\ ScanRan /\ ParentsInRange /\ AllRetsOk
     /\ ~Acyclic(ParentIdx))
    => /\ Len(pass_rets) = MaxPasses
       /\ \A k \in 1..Len(pass_rets) : pass_rets[k] = -EAGAIN
       /\ scan_ret = -EAGAIN
       /\ \A i \in OnOrBelowCycle : DevicesOf(i) = {} /\ driver_rt[i + 1] = NULL

\* a table with a cycle and an entry off the cycle, which is bound
C6_Witness ==
    /\ ParentAware /\ ScanRan /\ ParentsInRange /\ AllRetsOk
    /\ ~Acyclic(ParentIdx)
    /\ \E i \in 0..(n_ents - 1) : ChainEnds(i) /\ driver_rt[i + 1] # NULL
    /\ \E i \in OnOrBelowCycle : ParentIdx[i + 1] # i
    /\ scan_ret = -EAGAIN

\* C7 as stated: parent-aware mode: a parent index that is neither -1 nor
\* an index of the table makes the scan return an error of its own (not 0
\* and not the -EAGAIN of a cycle), no slot outside the table is read, and
\* no device is bound for that entry.
C7_OutOfRangeParentRejected ==
    (ParentAware /\ ScanRan /\ OobEntries # {})
    => /\ scan_ret \notin {0, -EAGAIN}
       /\ ~oob_read
       /\ \A i \in OobEntries : DevicesOf(i) = {}

\* ---- properties of lists_bind_fdt ----

\* driver e lists the compatible string c in its of_match
Lists(e, c) ==
    /\ driver[e].of_match # NoMatchList
    /\ \E i \in 1..Len(driver[e].of_match) : driver[e].of_match[i] = c

\* the first driver in registry order that lists c
FirstListing(c) == Min({e \in 1..n_drivers : Lists(e, c)})

\* the compatible strings of the node, by number, that some driver lists
Listed(node) ==
    {k \in 1..Len(node.compat) : \E e \in 1..n_drivers : Lists(e, node.compat[k])}

\* those whose first driver does not refuse to bind
Accepted(node) ==
    {k \in Listed(node) :
       driver[FirstListing(node.compat[k])].bind_ret # -ENODEV}

Unrestricted == fdt_out.returned /\ fdt_in.drv = NULL

GateClosed(e) ==
    fdt_in.pre_reloc_only /\ ~fdt_in.node.pre_reloc /\ ~driver[e].pre_reloc

ScanDone == scan_out.called

\* the calls of the scan whose selected driver, the first one called,
\* refused to bind
RefusedCalls ==
    {c \in 1..Len(scan_out.calls) :
       /\ scan_out.calls[c].hooks # <<>>
       /\ driver[scan_out.calls[c].hooks[1]].bind_ret = -ENODEV}

DevicesOfNode(id) ==
    {d \in 1..Len(devices) : devices[d].kind = "node" /\ devices[d].idx = id}

\* the enabled subnodes of path, in order
RECURSIVE EnabledIds(_, _)
EnabledIds(subnodes, i) ==
    IF i > Len(subnodes) THEN <<>>
    ELSE IF subnodes[i].enabled
    THEN <<subnodes[i].id>> \o EnabledIds(subnodes, i + 1)
    ELSE EnabledIds(subnodes, i + 1)

\* the nodes the scans of scan_out.scans had to try, in order
RECURSIVE Expected(_)
Expected(i) ==
    IF i > Len(scan_out.scans) THEN <<>>
    ELSE (IF hdt[scan_out.scans[i].path].valid
          THEN EnabledIds(hdt[scan_out.scans[i].path].subnodes, 1)
          ELSE <<>>) \o Expected(i + 1)

FullScan == scan_out.called /\ scan_out.fn = "dm_extended_scan"

\* C10 as stated: all four scans are made whatever they return, and the
\* first error is returned
C10_RemainingRootsStillScanned ==
    FullScan
    => /\ [i \in 1..Len(scan_out.scans) |-> scan_out.scans[i].path] = ScanPaths
       /\ \/ /\ scan_out.ret = 0
             /\ \A i \in 1..Len(scan_out.scans) : scan_out.scans[i].ret = 0
          \/ \E i \in 1..Len(scan_out.scans) :
               /\ scan_out.scans[i].ret = scan_out.ret
               /\ scan_out.ret # 0
               /\ \A j \in 1..(i - 1) : scan_out.scans[j].ret = 0

\* C10: the scans are made in the order "/", /chosen, /clocks, /firmware and
\* stop with the first that returns an error, which is returned; the later
\* nodes are not scanned and none of their subnodes is tried
C10_StopsAtFirstError ==
    FullScan
    => LET n == Len(scan_out.scans)
       IN  /\ n \in 1..Len(ScanPaths)
           /\ \A i \in 1..n : scan_out.scans[i].path = ScanPaths[i]
           /\ \A i \in 1..(n - 1) : scan_out.scans[i].ret = 0
           /\ scan_out.ret = scan_out.scans[n].ret
           /\ n < Len(ScanPaths) => scan_out.ret # 0
           /\ [c \in 1..Len(scan_out.calls) |-> scan_out.calls[c].node] = Expected(1)
           /\ \A i \in (n + 1)..Len(ScanPaths) :
                \A k \in 1..Len(hdt[ScanPaths[i]].subnodes) :
                  DevicesOfNode(hdt[ScanPaths[i]].subnodes[k].id) = {}

\* the scan of /chosen failed and /clocks, with a subnode the drivers would
\* bind, was not scanned
C10_Witness ==
    /\ FullScan
    /\ Len(scan_out.scans) = 2
    /\ scan_out.ret # 0
    /\ hdt["/clocks"].valid
    /\ \E k \in 1..Len(hdt["/clocks"].subnodes) :
         LET node == hdt["/clocks"].subnodes[k]
         IN  /\ node.enabled
             /\ node.prop = "ok"
             /\ driver[FirstListing(node.compat[1])].bind_ret = 0

\* ---- more properties of the static scan ----
\* device a stands before device b in the child list of their parent
Before(a, b) ==
    LET list == ChildList(devices[a].parent)
    IN  \E x, y \in 1..Len(list) : x < y /\ list[x] = a /\ list[y] = b

\* entries i < j whose slots hold devices with the same parent
BoundSiblings ==
    {ij \in (0..(n_ents - 1)) \X (0..(n_ents - 1)) :
       /\ Len(driver_rt) = n_ents
       /\ ij[1] < ij[2]
       /\ driver_rt[ij[1] + 1] # NULL
       /\ driver_rt[ij[2] + 1] # NULL
       /\ devices[driver_rt[ij[1] + 1]].parent = devices[driver_rt[ij[2] + 1]].parent}

\* C14 as stated: parent-aware mode: of two entries i < j bound under the
\* same parent, the device of i stands before the device of j in the
\* parent's child list, wherever the parent is declared
C14_SiblingsInDeclarationOrder ==
    ParentAware =>
        \A ij \in BoundSiblings :
            Before(driver_rt[ij[1] + 1], driver_rt[ij[2] + 1])

\* C14: parent-aware mode: two entries i < j bound under the same parent
\* stand in declaration order in the parent's child list when the parent is
\* declared before both or after both (or is the root); when the parent is
\* declared between them, j is bound in the parent's pass and i a pass
\* later, and the device of j stands before the device of i
C14_SiblingsInBindOrder ==
    ParentAware =>
        \A ij \in BoundSiblings :
            LET p == ParentIdx[ij[1] + 1]
            IN  IF ij[1] < p /\ p < ij[2]
                THEN Before(driver_rt[ij[2] + 1], driver_rt[ij[1] + 1])
                ELSE Before(driver_rt[ij[1] + 1], driver_rt[ij[2] + 1])

\* the parent declared between two of its children, both bound, the later
\* child in the parent's pass and the earlier one in the next
C14_Witness ==
    /\ ParentAware
    /\ \E ij \in BoundSiblings :
         /\ ij[1] < ParentIdx[ij[1] + 1]
         /\ ParentIdx[ij[1] + 1] < ij[2]
         /\ Before(driver_rt[ij[2] + 1], driver_rt[ij[1] + 1])
         /\ Len(pass_rets) = 2

\* ---- the value of one pass ----
Ret(e) == info[e + 1].ret

\* the entries pass k of the last call had to try: not bound when the pass
\* started and, in parent-aware mode, with no parent or with a parent slot
\* filled by the time the pass reached the entry
Available(k) ==
    {e \in 0..(n_ents - 1) :
       /\ cfg.OF_PLATDATA => pass_log[k].rt0[e + 1] = NULL
       /\ NeedsParent(ParentIdx[e + 1])
          => \/ pass_log[k].rt0[ParentIdx[e + 1] + 1] # NULL
             \/ /\ ParentIdx[e + 1] < e
                /\ pass_rts[k][ParentIdx[e + 1] + 1] # NULL}

\* the entries pass k left aside for want of a parent
LeftForLater(k) ==
    {e \in 0..(n_ents - 1) :
       /\ cfg.OF_PLATDATA => pass_log[k].rt0[e + 1] = NULL
       /\ e \notin Available(k)}

\* the positions in the attempts of pass k whose bind returned an error
\* other than -ENOENT that the pass records
OtherErrors(k) ==
    {x \in 1..Len(pass_log[k].tried) :
       Ret(pass_log[k].tried[x]) \notin {0, -EPERM, -ENOENT}}

Max(S) == CHOOSE x \in S : \A y \in S : y <= x

PassValue(k, other) ==
    IF OtherErrors(k) # {} THEN Ret(pass_log[k].tried[other])
    ELSE IF \E x \in 1..Len(pass_log[k].tried) : Ret(pass_log[k].tried[x]) = -ENOENT
    THEN -ENOENT
    ELSE IF LeftForLater(k) # {} THEN -EAGAIN
    ELSE 0

Tried == UNION {Range(pass_log[k].tried) : k \in 1..Len(pass_log)}

\* C20 as stated: when every bind the scan attempted succeeded or was
\* passed over, and the parent graph is acyclic with chains of at most 10,
\* the scan returns 0, also when a passed-over entry is a parent
C20_PassedOverBindsIgnored ==
    (/\ ScanRan /\ ParentsInRange
     /\ ParentAware => /\ Acyclic(ParentIdx)
                       /\ \A i \in 0..(n_ents - 1) : ChainLevels(i) <= MaxPasses
     /\ \A e \in Tried : Ret(e) \in {0, -EPERM})
    => scan_ret = 0

\* ---- properties of dm_scan_fdt_node ----
\* the calls of scan_out.calls made by scan number i of scan_out.scans
RECURSIVE CallsBefore(_)
CallsBefore(i) ==
    IF i = 1 THEN 0
    ELSE CallsBefore(i - 1)
         + (IF hdt[scan_out.scans[i - 1].path].valid
            THEN Len(EnabledIds(hdt[scan_out.scans[i - 1].path].subnodes, 1))
            ELSE 0)

\* what lists_bind_fdt returns for a node under the drivers of the scan: the
\* devicetree error, the error of the first driver tried that neither binds
\* nor refuses, else 0
RECURSIVE NodeResult(_, _)
NodeResult(node, k) ==
    IF node.prop = "error" THEN -FDT_ERR_BADSTRUCTURE
    ELSE IF node.prop = "notfound" \/ k > Len(node.compat) THEN 0
    ELSE IF Listed(node) = {} \/ k \notin Listed(node) THEN NodeResult(node, k + 1)
    ELSE LET r == driver[FirstListing(node.compat[k])].bind_ret
         IN  IF r = -ENODEV THEN NodeResult(node, k + 1) ELSE r

\* the results of the enabled nodes among subnodes, in order
RECURSIVE EnabledResults(_, _)
EnabledResults(subnodes, i) ==
    IF i > Len(subnodes) THEN <<>>
    ELSE IF subnodes[i].enabled
    THEN <<NodeResult(subnodes[i], 1)>> \o EnabledResults(subnodes, i + 1)
    ELSE EnabledResults(subnodes, i + 1)

\* the first value of q that is not 0, or 0
RECURSIVE FirstNonZero(_, _)
FirstNonZero(q, i) ==
    IF i > Len(q) THEN 0
    ELSE IF q[i] # 0 THEN q[i] ELSE FirstNonZero(q, i + 1)

\* the nodes below the subnodes of the scanned paths
DeeperIds ==
    UNION {UNION {{hdt[p].subnodes[k].subnodes[x].id :
                     x \in 1..Len(hdt[p].subnodes[k].subnodes)} :
                  k \in 1..Len(hdt[p].subnodes)} :
           p \in Range(ScanPaths)}

\* C16: a scan of a node calls lists_bind_fdt once for every enabled direct
\* subnode, in subnode order, whatever the earlier calls returned, never for
\* a disabled subnode or a node below a subnode; it returns the first error
\* among these calls, 0 if there is none, and 0 without any call when the
\* node is not valid
C16_ScanTriesEveryEnabledSubnode ==
    ScanDone
    => \A i \in 1..Len(scan_out.scans) :
         LET path == scan_out.scans[i].path
             from == CallsBefore(i)
             ids == IF hdt[path].valid THEN EnabledIds(hdt[path].subnodes, 1)
                    ELSE <<>>
             rets == IF hdt[path].valid THEN EnabledResults(hdt[path].subnodes, 1)
                     ELSE <<>>
         IN  /\ from + Len(ids) <= Len(scan_out.calls)
             /\ \A x \in 1..Len(ids) :
                  /\ scan_out.calls[from + x].node = ids[x]
                  /\ scan_out.calls[from + x].ret = rets[x]
             /\ scan_out.scans[i].ret = FirstNonZero(rets, 1)
             /\ i = Len(scan_out.scans) => Len(scan_out.calls) = from + Len(ids)
             /\ \A c \in 1..Len(scan_out.calls) :
                  scan_out.calls[c].node \notin DeeperIds
             /\ \A id \in DeeperIds : DevicesOfNode(id) = {}

\* a scan of two enabled subnodes: the call for the first failed, the second
\* was still bound, its own subnode was not tried, the first error returned
C16_Witness ==
    /\ ScanDone
    /\ Len(scan_out.scans) = 1
    /\ Len(scan_out.calls) = 2
    /\ scan_out.calls[1].ret # 0
    /\ scan_out.calls[2].dev # NULL
    /\ scan_out.ret = scan_out.calls[1].ret
    /\ Len(hdt[RootPath].subnodes[2].subnodes) = 1
    /\ DevicesOfNode(hdt[RootPath].subnodes[2].subnodes[1].id) = {}

\* ---- lists_bind_fdt with a driver restriction ----
Restricted == fdt_out.returned /\ fdt_in.drv # NULL

\* the restricted driver lists one of the node's compatible strings
DrvListsNode ==
    \E k \in 1..Len(fdt_in.node.compat) : Lists(fdt_in.drv, fdt_in.node.compat[k])

Walked == probe_out.called

\* the devices above x, up to the root
RECURSIVE Ancestors(_)
Ancestors(x) ==
    IF devices[x].parent = NULL THEN {}
    ELSE {devices[x].parent} \cup Ancestors(devices[x].parent)

\* d and the devices below it
Subtree(d) == {x \in 1..Len(devices) : x = d \/ d \in Ancestors(x)}

\* the devices on the way from d down to x, x left out
Above(d, x) == Ancestors(x) \cap Subtree(d)

\* x carries PROBE_AFTER_BIND and passes the pre-reloc gate of the walk
Eligible(x) ==
    /\ dev_attr[x].probe_after_bind
    /\ probe_in.pre_reloc_only =>
         \/ dev_attr[x].node_valid /\ dev_attr[x].node_pre_reloc
         \/ dev_attr[x].drv_pre_reloc

\* the probe of x, if the walk attempts it, fails
OwnProbeFails(x) == Eligible(x) /\ dev_attr[x].probe_ret # 0

\* the devices of the walk from d that have no failing device above them
Reached(d) == {x \in Subtree(d) : \A a \in Above(d, x) : ~OwnProbeFails(a)}

\* C11 as stated: the walk started at a device calls dm_probe_devices for
\* every device of its subtree, and every device of the subtree that carries
\* PROBE_AFTER_BIND and passes the pre-reloc gate gets a probe attempt.
C11_EveryDescendantProbed ==
    Walked =>
        \A x \in Subtree(probe_in.dev) :
            /\ x \in Range(probe_out.calls)
            /\ Eligible(x) => x \in Range(probe_out.probes)

\* C11 amended: the walk descends into the children of a device that was
\* not probed (gate closed or no PROBE_AFTER_BIND) and of a device whose
\* probe succeeded, but not into the children of a device whose probe
\* failed: it visits, once each, exactly the devices with no failing device
\* above them, and attempts the probe of exactly the eligible ones of these.
C11_DescendsUnlessOwnProbeFailed ==
    Walked =>
        /\ Range(probe_out.calls) = Reached(probe_in.dev)
        /\ Len(probe_out.calls) = Cardinality(Reached(probe_in.dev))
        /\ Range(probe_out.probes) =
               {x \in Reached(probe_in.dev) : Eligible(x)}
        /\ Len(probe_out.probes) = Cardinality(Range(probe_out.probes))

\* a walk that went down through a device it did not probe and probed a
\* child of it, whose probe failed, so that an eligible grandchild got no
\* probe attempt
C11_Witness ==
    /\ Walked
    /\ \E y, z, x \in Subtree(probe_in.dev) :
         /\ devices[z].parent = y
         /\ devices[x].parent = z
         /\ ~Eligible(y)
         /\ OwnProbeFails(z)
         /\ z \in Range(probe_out.probes)
         /\ Eligible(x)
         /\ x \notin Range(probe_out.calls)

\* C19: the walk started at d returns an error exactly when the probe of d
\* was attempted and failed, and then that error; the same holds of every
\* call the walk makes, so no failure of a descendant changes a return
\* value; and below a device whose probe did not fail, every child is
\* visited in child-list order, also after an earlier child's probe failed,
\* and so is the subtree of each later sibling.
C19_OnlyOwnFailureReturned ==
    Walked =>
        /\ probe_out.ret =
               IF OwnProbeFails(probe_in.dev)
               THEN dev_attr[probe_in.dev].probe_ret ELSE 0
        /\ \A k \in 1..Len(probe_out.rets) :
               probe_out.rets[k].ret =
                   IF OwnProbeFails(probe_out.rets[k].dev)
                   THEN dev_attr[probe_out.rets[k].dev].probe_ret ELSE 0
        /\ {probe_out.rets[k].dev : k \in 1..Len(probe_out.rets)} =
               Range(probe_out.calls)
        /\ \A x \in Range(probe_out.calls) :
               ~OwnProbeFails(x) =>
                   \A i, j \in 1..Len(ChildList(x)) :
                       LET c == ChildList(x)[i]
                           s == ChildList(x)[j]
                       IN  i < j =>
                             /\ \E m, n \in 1..Len(probe_out.calls) :
                                    /\ m < n
                                    /\ probe_out.calls[m] = c
                                    /\ probe_out.calls[n] = s
                             /\ OwnProbeFails(c) =>
                                    Reached(s) \subseteq Range(probe_out.calls)

\* a walk that returned 0 although the probe of a child failed, and that
\* probed a later sibling of that child
C19_Witness ==
    /\ Walked
    /\ probe_out.ret = 0
    /\ \E c, s \in Range(probe_out.probes) :
         /\ devices[c].parent = probe_in.dev
         /\ devices[s].parent = probe_in.dev
         /\ c < s
         /\ OwnProbeFails(c)

\* ---- properties of dm_init and dm_uninit ----
\* this step is a call of fn
Called(fn) ==
    /\ Len(life_log') = Len(life_log) + 1
    /\ life_log'[Len(life_log')].fn = fn

\* the root devices gd->dm_root can reach
LiveRoots ==
    {d \in (leaked + 1)..Len(devices) : devices[d].kind = "root"}

\* C12: dm_init called while gd->dm_root is set returns -EINVAL and leaves
\* the root handle, the uclass list (all of gd) and the devices as they
\* were; at every moment there is at most one root device in reach, and
\* gd->dm_root, when set, is that device.
C12_InitRejectedWhileRootExists ==
    /\ [](/\ Cardinality(LiveRoots) <= 1
          /\ dm_root # NULL => LiveRoots = {dm_root})
    /\ [][Called("dm_init") /\ dm_root # NULL =>
            /\ Last(life_log').ret = -EINVAL
            /\ UNCHANGED <<dm_root, devices, gd, leaked>>]_vars

\* a dm_init that succeeded, followed by a dm_init that was rejected
C12_Witness ==
    \E i \in 2..Len(life_log) :
        /\ life_log[i - 1].fn = "dm_init"
        /\ life_log[i - 1].ret = 0
        /\ life_log[i].fn = "dm_init"
        /\ life_log[i].ret = -EINVAL
        /\ dm_root # NULL

\* C13: dm_uninit calls device_remove(root, DM_REMOVE_NON_VITAL),
\* device_remove(root, DM_REMOVE_NORMAL) and device_unbind(root), in this
\* order and each with the root handle still set, then clears gd->dm_root;
\* it returns 0 with gd->dm_root null whatever the three calls return; a
\* dm_uninit without a root changes nothing; and the dm_init call that
\* follows a dm_uninit is not rejected with -EINVAL.
C13_UninitOrderAndResult ==
    [][/\ Called("dm_uninit") =>
            LET c == Last(life_log')
            IN  /\ c.ret = 0
                /\ dm_root' = NULL
                /\ [k \in 1..4 |-> <<c.steps[k].step, c.steps[k].flags>>] =
                       << <<"device_remove", "DM_REMOVE_NON_VITAL">>,
                          <<"device_remove", "DM_REMOVE_NORMAL">>,
                          <<"device_unbind", "">>,
                          <<"gd->dm_root = NULL", "">> >>
                /\ \A k \in 1..3 : c.steps[k].dev = dm_root
                /\ dm_root = NULL =>
                       UNCHANGED <<dm_root, devices, gd, leaked>>
       /\ (/\ Called("dm_init")
           /\ life_log # <<>>
           /\ Last(life_log).fn = "dm_uninit") =>
               Last(life_log').ret # -EINVAL]_vars

\* a dm_uninit of an existing root whose unbind reported an error, a second
\* dm_uninit right after it, and then a dm_init that succeeded
C13_Witness ==
    \E i \in 1..(Len(life_log) - 2) :
        /\ life_log[i].fn = "dm_uninit"
        /\ life_log[i].steps[3].dev # NULL
        /\ life_log[i].steps[3].ret # 0
        /\ life_log[i].ret = 0
        /\ life_log[i + 1].fn = "dm_uninit"
        /\ life_log[i + 1].steps[3].dev = NULL
        /\ life_log[i + 2].fn = "dm_init"
        /\ life_log[i + 2].ret = 0

\* ---- properties of dm_init_and_scan ----
\* the call has been made
Booted == boot_out.called

\* the stages in the order of the claim
StageOrder ==
    <<"dm_init", "dm_scan_plat", "dm_extended_scan", "dm_scan_other",
      "dm_probe_devices", "event_notify_null">>

ScanStages == {"dm_scan_plat", "dm_extended_scan", "dm_scan_other"}

\* the build has the stage: an instance build scans and probes nothing,
\* the devicetree scan needs OF_REAL, the notification DM_EVENT
InBuild(name) ==
    CASE name = "dm_init" -> TRUE
      [] name = "dm_extended_scan" ->
            ~cfg.OF_PLATDATA_INST /\ cfg.OF_REAL
      [] name = "event_notify_null" -> cfg.DM_EVENT
      [] OTHER -> ~cfg.OF_PLATDATA_INST

BuildStages == SelectSeq(StageOrder, InBuild)

\* C18: dm_init_and_scan runs the stages the build has in the order dm_init,
\* dm_scan_plat, dm_extended_scan, dm_scan_other, dm_probe_devices,
\* event_notify_null; a stage is started exactly when every stage before it
\* returned 0, where dm_scan_plat returns 0 when lists_bind_drivers
\* returned -ENOENT; the call returns what the last stage it ran returned;
\* so after an error of a scan stage there is no dm_probe_devices and no
\* event_notify_null, and that error is returned.
C18_StagesInOrderUntilError ==
    Booted =>
        LET st == boot_out.stages
            n == Len(st)
        IN  /\ n >= 1
            /\ n <= Len(BuildStages)
            /\ \A k \in 1..n : st[k].stage = BuildStages[k]
            /\ \A k \in 1..(n - 1) : st[k].ret = 0
            /\ n < Len(BuildStages) => st[n].ret # 0
            /\ boot_out.ret = st[n].ret
            /\ \A k \in 1..n :
                  st[k].stage = "dm_scan_plat" =>
                      st[k].ret = IF st[k].raw = -ENOENT THEN 0 ELSE st[k].raw
            /\ \A k \in 1..n :
                  (st[k].stage \in ScanStages /\ st[k].ret # 0) =>
                      /\ boot_out.ret = st[k].ret
                      /\ \A j \in 1..n :
                            st[j].stage \notin {"dm_probe_devices",
                                                "event_notify_null"}

\* a call in a build with event notification in which lists_bind_drivers
\* returned -ENOENT, the devicetree scan was still run and failed, and
\* nothing was probed or notified
C18_Witness ==
    /\ Booted
    /\ cfg.DM_EVENT
    /\ Len(boot_out.stages) = 3
    /\ boot_out.stages[2].stage = "dm_scan_plat"
    /\ boot_out.stages[2].raw = -ENOENT
    /\ boot_out.stages[2].ret = 0
    /\ boot_out.stages[3].stage = "dm_extended_scan"
    /\ boot_out.stages[3].ret # 0
    /\ boot_out.ret = boot_out.stages[3].ret

\* ---- dm_init after an error ----
\* C21: a dm_init call made without a root that returns an error (the bind
\* of the root failed, its probe failed, or a calloc of dm_setup_inst
\* failed) leaves gd->dm_root null, and the dm_init call that follows it is
\* not rejected with -EINVAL.
C21_FailedInitLeavesNoRoot ==
    [][/\ (Called("dm_init") /\ dm_root = NULL /\ Last(life_log').ret # 0) =>
            dm_root' = NULL
       /\ (/\ Called("dm_init")
           /\ life_log # <<>>
           /\ Last(life_log).fn = "dm_init"
           /\ Last(life_log).ret \notin {0, -EINVAL}) =>
               Last(life_log').ret # -EINVAL]_vars

====
